---- MODULE Spec2Model ----
(***************************************************************************)
(* Balance-sheet-tracker API: the HTTP routes (routes.ts), the repository  *)
(* (storage.ts), the authentication module (auth.ts) and the users schema  *)
(* (shared/schema.ts), as a state machine over the database tables.        *)
(*                                                                         *)
(* The five financial tables are disjoint and no record route touches two  *)
(* of them, so a behaviour follows one table, the one named by `kind`.     *)
(***************************************************************************)
EXTENDS Integers, Sequences, FiniteSets, TLC

VARIABLES
    users,      \* table users: set of rows
    userSeq,    \* last value of the serial users.id
    rows,       \* table `kind`: set of rows [id, userId, amount, notes, createdAt]
    kind,       \* the financial table this behaviour follows
    createdFor, \* history: createdFor[id] = identity of the request that created id
    now,        \* wall clock, in ticks of 12 hours
    issued,     \* tokens the server has handed out
    sync,       \* the bulk sync (PUT) in flight: the caller's id, 0 when there is none
    regs,       \* registrations in flight, between the lookup and the insert
    failed,     \* the bulk sync in flight has thrown and has been answered 500
    oauths,     \* Google sign-ins in flight, between the lookup and the insert
    request,    \* the AIAssistantRequest handed to the advice generator
    pool,       \* the database connection pool: "open", "ending" or "ended"
    cleanups,   \* invocations of the shutdown handler that have not finished
    exited,     \* the process has called process.exit
    resp        \* the HTTP response sent by the last step (for handleGoogleCallback the
                \* value returned), NoResponse when it sent none

vars == <<users, userSeq, rows, kind, createdFor, now, issued, sync, failed, regs,
          oauths, request, pool, cleanups, exited, resp>>

(* the state outside the HTTP routes *)
process == <<request, pool, cleanups, exited>>

----------------------------------------------------------------------------
(* Bounds of the model *)

MaxRecords == 2     \* uuids generated in a behaviour
MaxTime == 2        \* clock ticks
MaxRegs == 2        \* registrations in flight at once
MaxSignIns == 2     \* Google sign-ins in flight at once

(* 24 hours, in ticks of 12 hours *)
ExpiresIn == 2

Kinds == {"incomes", "expenses", "assets", "liabilities", "goals"}
SeedUsernames == <<"alice", "bob">>
SeedEmails == <<<<"a", "x.com">>, <<"b", "x.com">>>>
Usernames == {"alice", "bob"}
Passwords == {"pw123456", "hunter22"}
Emails == {<<"a", "x.com">>, <<"b", "x.com">>}    \* an address: <<local part, domain>>
JWT_SECRET == "your-secret-key"

----------------------------------------------------------------------------
(* JavaScript values at the API boundary and decimal text on disk *)

Num(n) == [t |-> "num", v |-> n]
NaN == [t |-> "nan"]
Undefined == [t |-> "undef"]
Str(s) == [t |-> "str", v |-> s]
Null == [null |-> TRUE]

(* x ?? d *)
nullish(x, d) == IF x = Undefined \/ x = Null THEN d ELSE x

(* new Date() *)
Date(t) == [date |-> t]

(* no call of the advice generator is under way *)
NoRequest == [none |-> TRUE]

DigitChar == <<"0", "1", "2", "3", "4", "5", "6", "7", "8", "9">>

(* the text of the last digit alone *)
lastDigitText(n) == <<DigitChar[(n % 10) + 1]>>

RECURSIVE natToText(_)
natToText(n) ==
    IF n < 10 THEN <<DigitChar[n + 1]>>
    ELSE Append(natToText(n \div 10), DigitChar[(n % 10) + 1])

(* Number.prototype.toString of an integer or NaN *)
toString(x) ==
    IF x.t = "nan" THEN <<"N", "a", "N">>
    ELSE IF x.v < 0 THEN <<"-">> \o natToText(-x.v)
    ELSE natToText(x.v)

DigitOf(c) == CHOOSE d \in 0..9 : DigitChar[d + 1] = c

RECURSIVE textToNat(_)
textToNat(s) ==
    IF s = <<>> THEN 0
    ELSE 10 * textToNat(SubSeq(s, 1, Len(s) - 1)) + DigitOf(s[Len(s)])

IsDigits(s) == s # <<>> /\ \A i \in 1..Len(s) : \E d \in 1..10 : DigitChar[d] = s[i]

(* parseFloat of the decimal text the numeric column returns *)
parseFloat(s) ==
    IF s # <<>> /\ s[1] = "-" /\ IsDigits(Tail(s)) THEN Num(-textToNat(Tail(s)))
    ELSE IF IsDigits(s) THEN Num(textToNat(s))
    ELSE NaN

(* Number(x) of a JSON value: undefined becomes NaN *)
Number(x) == IF x.t = "undef" THEN NaN ELSE x

----------------------------------------------------------------------------
(* auth.ts: tokens *)

NoHeader == [none |-> TRUE]

Mac(key, id, username, exp) == [key |-> key, id |-> id, username |-> username, exp |-> exp]

(* jwt.sign({id, username}, JWT_SECRET, {expiresIn: "24h"}) at time t *)
generateTokenAt(user, t) ==
    [id |-> user.id, username |-> user.username, exp |-> t + ExpiresIn,
     mac |-> Mac(JWT_SECRET, user.id, user.username, t + ExpiresIn)]

generateToken(user) == generateTokenAt(user, now)

(* jwt.decode(token): the payload, unverified *)
jwtDecode(token) == TRUE

(* jwt.verify(token, JWT_SECRET): the signature covers the payload, and the
   token is expired once the clock has reached exp *)
jwtVerify(token) ==
    /\ token.mac = Mac(JWT_SECRET, token.id, token.username, token.exp)
    /\ now < token.exp

authenticateToken(h) ==
    IF h = NoHeader
    THEN [ok |-> FALSE, status |-> 401, error |-> "Authentication required"]
    ELSE IF jwtVerify(h)
    THEN [ok |-> TRUE, user |-> [id |-> h.id, username |-> h.username]]
    ELSE [ok |-> FALSE, status |-> 403, error |-> "Invalid token"]

----------------------------------------------------------------------------------------------------------------------------------------
(* storage.ts: the repository of one financial table.  The five tables have
   the same five methods; `amount` is the table's numeric column. *)

(* the row as the repository returns it: parseFloat of the decimal text,
   notes ?? undefined *)
mapRecord(r) ==
    [id |-> r.id, userId |-> r.userId, amount |-> parseFloat(r.amount),
     notes |-> nullish(r.notes, Undefined), createdAt |-> r.createdAt]

(* getAll without the where clause *)
getAllRecordsOfAnyUser(rs, userId) == {mapRecord(r) : r \in rs}

(* select().from(t).where(eq(t.userId, userId)) *)
getAllRecords(rs, userId) == {mapRecord(r) : r \in {x \in rs : x.userId = userId}}

(* get by id alone *)
getRecordOfAnyUser(rs, id, userId) == {mapRecord(r) : r \in {x \in rs : x.id = id}}

(* select().from(t).where(and(eq(t.id, id), eq(t.userId, userId))): the rows
   found, result[0] being undefined when there is none *)
getRecord(rs, id, userId) ==
    {mapRecord(r) : r \in {x \in rs : x.id = id /\ x.userId = userId}}

(* {id, ...input, amount: input.amount.toString(), notes: input.notes ?? null,
    createdAt: now} *)
insertRow(id, input) ==
    [id |-> id, userId |-> input.userId, amount |-> toString(input.amount),
     notes |-> nullish(input.notes, Null), createdAt |-> Date(now)]

(* a create that writes a row whatever id the generator returned *)
createOverFirst(rs, id, input) == {r \in rs : r.id # 1} \cup {insertRow(1, input)}

createRecord(rs, id, input) == rs \cup {insertRow(id, input)}

(* set({...patch, amount: patch.amount?.toString()}): notes left alone like
   the other columns *)
setFieldsGiven(r, patch) ==
    LET a == IF patch.amount = Undefined THEN r.amount ELSE toString(patch.amount)
        u == IF "userId" \in DOMAIN patch THEN patch.userId ELSE r.userId
        n == IF patch.notes = Undefined THEN r.notes ELSE patch.notes
    IN  [r EXCEPT !.amount = a, !.userId = u, !.notes = n]

(* set({...patch, amount: patch.amount?.toString(), notes: patch.notes ?? null}):
   undefined columns are left alone *)
setFields(r, patch) ==
    LET a == IF patch.amount = Undefined THEN r.amount ELSE toString(patch.amount)
        u == IF "userId" \in DOMAIN patch THEN patch.userId ELSE r.userId
    IN  [r EXCEPT !.amount = a, !.userId = u, !.notes = nullish(patch.notes, Null)]

(* an update that keeps the old row and adds the changed one *)
updateByCopy(rs, id, patch, userId) ==
    rs \cup {setFields(r, patch) : r \in {x \in rs : x.id = id /\ x.userId = userId}}

(* an update by id alone *)
updateRecordOfAnyUser(rs, id, patch, userId) ==
    {IF r.id = id THEN setFields(r, patch) ELSE r : r \in rs}

(* update(t).set(..).where(and(eq(t.id, id), eq(t.userId, userId))) *)
updateRecord(rs, id, patch, userId) ==
    {IF r.id = id /\ r.userId = userId THEN setFields(r, patch) ELSE r : r \in rs}

(* delete by id alone *)
deleteRecordOfAnyUser(rs, id, userId) == {r \in rs : r.id # id}

(* delete(t).where(and(eq(t.id, id), eq(t.userId, userId))) *)
deleteRecord(rs, id, userId) == {r \in rs : ~(r.id = id /\ r.userId = userId)}

----------------------------------------------------------------------------
(* routes.ts: requests and responses *)

UserIds == 1..Len(SeedUsernames)

Expired(t) == now >= t.exp

(* what a caller without the signing key can make of the tokens handed out:
   another identity or a later expiry under the old signature, or a signature
   of its own *)
TamperedTokens ==
    UNION {{[t EXCEPT !.id = u.id, !.username = u.username] :
                u \in {y \in users : y.id # t.id}} : t \in {x \in issued : ~Expired(x)}}
    \cup {[t EXCEPT !.exp = now + ExpiresIn] : t \in {x \in issued : Expired(x)}}
    \cup {[t EXCEPT !.mac = Mac("other-key", t.id, t.username, t.exp)] :
        t \in {x \in issued : ~Expired(x)}}

Headers == {NoHeader} \cup issued \cup TamperedTokens

JsonAmounts == {Num(-1), Num(5000), Undefined}

JsonNotes == {Undefined, Str("")}

(* req.body of a POST: the numeric field, the notes, and a userId the caller may
   put in (0: none) *)
AllBodies == [amount : JsonAmounts, notes : JsonNotes, userId : 0..Len(SeedUsernames)]

(* an element of a PUT array; id 0 stands for no id *)
AllElements == [id : 0..(MaxRecords + 1), amount : JsonAmounts, notes : JsonNotes]

(* the requests that differ in the numeric field and carry no notes *)
Bodies == {b \in AllBodies : b.notes = Undefined}
Elements == {e \in AllElements : e.amount # Undefined /\ e.notes = Undefined}

(* the elements that lack the numeric field *)
PartialElements == {e \in AllElements : e.amount = Undefined /\ e.notes = Undefined}

(* the requests that differ in the notes and carry the same valid number *)
NotedBodies == {b \in AllBodies : b.amount = Num(5000) /\ b.userId = 0}
NotedElements == {e \in AllElements : e.amount = Num(5000)}

(* well-formed ids a caller can name; MaxRecords + 1 is never generated *)
IdParams == 1..(MaxRecords + 1)

NotFound == [incomes |-> "Income not found", expenses |-> "Expense not found",
             assets |-> "Asset not found", liabilities |-> "Liability not found",
             goals |-> "Goal not found"]

Response(route, status, caller, id, body) ==
    [route |-> route, status |-> status, caller |-> caller, id |-> id, body |-> body]

NoResponse == Response("none", 0, 0, 0, [none |-> TRUE])

(* authenticateToken answers and next() is not called *)
Reject(route, a) ==
    /\ resp' = Response(route, a.status, 0, 0, [error |-> a.error])
    /\ UNCHANGED <<users, userSeq, rows, kind, process, createdFor, now, issued, sync, failed, regs, oauths>>

(* GET /<kind> *)
ListHandler(user) ==
    /\ resp' = Response("GET /", 200, user.id, 0, [list |-> getAllRecords(rows, user.id)])
    /\ UNCHANGED <<users, userSeq, rows, kind, process, createdFor, now, issued, sync, failed, regs, oauths>>

GetResponse(rs, k, userId, id) ==
    LET found == getRecord(rs, id, userId)
    IN  IF found = {}
        THEN Response("GET /:id", 404, userId, id, [error |-> NotFound[k]])
        ELSE Response("GET /:id", 200, userId, id, [record |-> CHOOSE r \in found : TRUE])

(* GET /<kind>/:id *)
GetHandler(user, id) ==
    /\ resp' = GetResponse(rows, kind, user.id, id)
    /\ UNCHANGED <<users, userSeq, rows, kind, process, createdFor, now, issued, sync, failed, regs, oauths>>

(* {userId: req.user.id, ...req.body}: the body's userId wins *)
postDataBodyLast(k, body, userId) ==
    [amount |-> IF k \in {"liabilities", "goals"} THEN Number(body.amount) ELSE body.amount,
     notes |-> IF k = "expenses" THEN Undefined ELSE body.notes,
     userId |-> IF body.userId # 0 THEN body.userId ELSE userId]

(* the body as the POST handler prepares it for the schema: {...req.body, userId: req.user.id},
   with Number() of the numeric fields of a liability or a goal, and without
   the notes of an expense *)
postData(k, body, userId) ==
    [amount |-> IF k \in {"liabilities", "goals"} THEN Number(body.amount) ELSE body.amount,
     notes |-> IF k = "expenses" THEN Undefined ELSE body.notes,
     userId |-> userId]

(* <kind>Schema.omit({id, createdAt}).parse(data) does not throw: z.number()
   refuses undefined and NaN, notes is an optional string, and goalSchema has no
   notes key *)
schemaAccepts(k, data) ==
    /\ data.amount.t = "num"
    /\ k \in {"assets", "liabilities", "goals"} => data.amount.v >= 0
    /\ k # "goals" => data.notes.t \in {"undef", "str"}

(* what parse returns: the keys of the schema *)
schemaParse(k, data) == IF k = "goals" THEN [data EXCEPT !.notes = Undefined] ELSE data

(* POST /<kind> *)
PostHandler(user, body) ==
    LET data == postData(kind, body, user.id)
        id == Len(createdFor) + 1
    IN  IF ~schemaAccepts(kind, data)
        THEN /\ resp' = Response("POST /", 400, user.id, 0, [error |-> "ZodError"])
             /\ UNCHANGED <<users, userSeq, rows, kind, process, createdFor, now, issued, sync,
                            failed, regs, oauths>>
        ELSE /\ id <= MaxRecords
             /\ rows' = createRecord(rows, id, schemaParse(kind, data))
             /\ createdFor' = Append(createdFor, user.id)
             /\ resp' = Response("POST /", 200, user.id, 0,
                                 [record |-> mapRecord(insertRow(id, schemaParse(kind, data)))])
             /\ UNCHANGED <<users, userSeq, kind, process, now, issued, sync, failed, regs, oauths>>

DeleteResponse(userId, id) == Response("DELETE /:id", 204, userId, id, [none |-> TRUE])

(* DELETE /<kind>/:id *)
DeleteHandler(user, id) ==
    /\ rows' = deleteRecord(rows, id, user.id)
    /\ resp' = DeleteResponse(user.id, id)
    /\ UNCHANGED <<users, userSeq, kind, process, createdFor, now, issued, sync, failed, regs, oauths>>

(* PUT /<kind>: the handler reads the array and starts one write per element *)
SyncStartHandler(user) ==
    /\ sync = 0
    /\ sync' = user.id
    /\ resp' = NoResponse
    /\ UNCHANGED <<users, userSeq, rows, kind, process, createdFor, now, issued, failed, regs,
                   oauths>>

(* the fields the PUT handler passes on from an element: no schema is applied *)
syncData(k, e) ==
    [amount |-> IF k = "liabilities" THEN Number(e.amount) ELSE e.amount,
     notes |-> IF k \in {"expenses", "goals"} THEN Undefined ELSE e.notes]

(* amount.toString() of an absent amount throws in create<Kind> *)
createThrows(data) == data.amount = Undefined

SyncFailed == [incomes |-> "Failed to sync incomes", expenses |-> "Failed to sync expenses",
               assets |-> "Failed to sync assets", liabilities |-> "Failed to sync liabilities",
               goals |-> "Failed to sync goals"]

(* one element of the array, in any order and interleaved with other requests:
   update when it carries an id, else create.  The first element that throws
   rejects Promise.all and the catch answers 500 at once; the other elements
   run on, and a later throw is answered by nothing. *)
SyncElemHandler(e) ==
    LET data == syncData(kind, e)
    IN  /\ sync # 0
        /\ IF e.id # 0
           THEN /\ rows' = updateRecord(rows, e.id, data, sync)
                /\ resp' = NoResponse
                /\ UNCHANGED <<createdFor, failed>>
           ELSE IF createThrows(data)
           THEN /\ failed' = TRUE
                /\ resp' = IF failed THEN NoResponse
                           ELSE Response("PUT /", 500, sync, 0, [error |-> SyncFailed[kind]])
                /\ UNCHANGED <<rows, createdFor>>
           ELSE /\ Len(createdFor) < MaxRecords
                /\ rows' = createRecord(rows, Len(createdFor) + 1,
                                        [amount |-> data.amount, notes |-> data.notes,
                                         userId |-> sync])
                /\ createdFor' = Append(createdFor, sync)
                /\ resp' = NoResponse
                /\ UNCHANGED failed
        /\ UNCHANGED <<users, userSeq, kind, process, now, issued, sync, regs, oauths>>

(* every element has settled, and the caller is answered in any case *)
SyncFinishAnswers ==
    /\ sync # 0
    /\ resp' = Response("PUT /", 200, sync, 0, [list |-> getAllRecords(rows, sync)])
    /\ sync' = 0
    /\ failed' = FALSE
    /\ UNCHANGED <<users, userSeq, rows, kind, process, createdFor, now, issued, regs, oauths>>

(* every element has settled: getAll for the caller and 200, unless the 500
   has been sent *)
SyncFinish ==
    /\ sync # 0
    /\ resp' = IF failed THEN NoResponse
               ELSE Response("PUT /", 200, sync, 0, [list |-> getAllRecords(rows, sync)])
    /\ sync' = 0
    /\ failed' = FALSE
    /\ UNCHANGED <<users, userSeq, rows, kind, process, createdFor, now, issued, regs, oauths>>

----------------------------------------------------------------------------
(* The record routes behind router.use(authenticateToken).  A handler sees of
   the header only what authenticateToken makes of it. *)

Authentications == {authenticateToken(h) : h \in Headers}

List ==
    \E a \in Authentications :
        IF a.ok THEN ListHandler(a.user) ELSE Reject("GET /", a)

Get ==
    \E a \in Authentications :
        IF a.ok THEN \E id \in IdParams : GetHandler(a.user, id)
        ELSE Reject("GET /:id", a)

Post ==
    \E a \in Authentications :
        IF a.ok THEN \E body \in Bodies : PostHandler(a.user, body)
        ELSE Reject("POST /", a)

Delete ==
    \E a \in Authentications :
        IF a.ok THEN \E id \in IdParams : DeleteHandler(a.user, id)
        ELSE Reject("DELETE /:id", a)

SyncStart ==
    \E a \in Authentications :
        IF a.ok THEN SyncStartHandler(a.user) ELSE Reject("PUT /", a)

SyncElem == \E e \in Elements : SyncElemHandler(e)

----------------------------------------------------------------------------
(* auth.ts: passwords *)

(* bcrypt.hash(password, salt) *)
hashPassword(password) == [bcrypt |-> password]

acceptAnyPassword(password, hash) == TRUE

(* bcrypt.compare(password, hash) *)
comparePasswords(password, hash) == hash = [bcrypt |-> password]

SeedUser(i) ==
    [id |-> i, username |-> SeedUsernames[i], password |-> hashPassword("pw123456"),
     email |-> SeedEmails[i], googleId |-> Null, lastLogin |-> Date(ExpiresIn)]

(* The record routes start from a database in which the seed users have
   registered at time 0 and have logged in again when that token expired. *)
Init ==
    /\ users = {SeedUser(i) : i \in UserIds}
    /\ userSeq = Len(SeedUsernames)
    /\ rows = {}
    /\ kind \in Kinds
    /\ createdFor = <<>>
    /\ failed = FALSE
    /\ oauths = <<>>
    /\ now = ExpiresIn
    /\ issued = {generateTokenAt(SeedUser(i), t) : i \in UserIds, t \in {0, ExpiresIn}}
    /\ sync = 0
    /\ regs = <<>>
    /\ request = NoRequest
    /\ pool = "open"
    /\ cleanups = <<>>
    /\ exited = FALSE
    /\ resp = NoResponse

Next ==
    \/ List
    \/ Get
    \/ Post
    \/ Delete
    \/ SyncStart
    \/ SyncElem
    \/ SyncFinish

Spec == Init /\ [][Next]_vars

(* bulk syncs whose elements may lack the numeric field *)
SyncPartialElem == \E e \in PartialElements : SyncElemHandler(e)

NextSync ==
    \/ List
    \/ Post
    \/ SyncStart
    \/ SyncElem
    \/ SyncPartialElem
    \/ SyncFinish

SpecSync == Init /\ [][NextSync]_vars

(* creates and bulk syncs whose records may carry notes *)
PostNoted ==
    \E a \in Authentications :
        IF a.ok THEN \E body \in NotedBodies : PostHandler(a.user, body)
        ELSE Reject("POST /", a)

SyncNotedElem == \E e \in NotedElements : SyncElemHandler(e)

NextNotes ==
    \/ List
    \/ Get
    \/ PostNoted
    \/ SyncStart
    \/ SyncNotedElem
    \/ SyncFinish

SpecNotes == Init /\ [][NextNotes]_vars

----------------------------------------------------------------------------
(* storage.ts and shared/schema.ts: the users table *)

getUser(us, id) == {x \in us : x.id = id}

getUserByUsername(us, username) == {x \in us : x.username = username}

(* no constraint is ever violated *)
noUniqueConstraint(us, insertUser) == "none"

(* the unique constraints of the table: the name of the one an insert of
   insertUser violates, "none" when it violates none *)
uniqueViolation(us, insertUser) ==
    IF \E x \in us : x.username = insertUser.username THEN "users_username_unique"
    ELSE IF \E x \in us : x.email = insertUser.email THEN "users_email_unique"
    ELSE IF /\ "googleId" \in DOMAIN insertUser
            /\ \E x \in us : x.googleId = insertUser.googleId
         THEN "users_google_id_unique"
    ELSE "none"

(* the value of a column the insert may leave out: null *)
column(insertUser, name) ==
    IF name \in DOMAIN insertUser THEN insertUser[name] ELSE Null

(* the row insert(users).values(insertUser).returning() adds; the serial id is
   the next value of the sequence *)
createUser(id, insertUser) ==
    [id |-> id, username |-> insertUser.username,
     password |-> column(insertUser, "password"),
     email |-> insertUser.email,
     googleId |-> column(insertUser, "googleId"),
     lastLogin |-> column(insertUser, "lastLogin")]

getUserByGoogleId(us, googleId) == {x \in us : x.googleId = googleId}

(* a Google user created with the hash of a password *)
createGoogleUserWithPassword(id, userData, t) ==
    createUser(id, [username |-> userData.username, email |-> userData.email,
                    googleId |-> userData.googleId,
                    password |-> [bcrypt |-> "pw123456"], lastLogin |-> Date(t)])

(* insert(users).values({...userData, password: null, createdAt: now, lastLogin: now}) *)
createGoogleUser(id, userData, t) ==
    createUser(id, [username |-> userData.username, email |-> userData.email,
                    googleId |-> userData.googleId,
                    password |-> Null, lastLogin |-> Date(t)])

(* update(users).set(userData).where(eq(users.id, id)) with userData = {lastLogin} *)
updateUser(us, id, userData) ==
    {IF x.id = id THEN [x EXCEPT !.lastLogin = userData.lastLogin] ELSE x : x \in us}

----------------------------------------------------------------------------
(* routes.ts: register, login and the current user *)

(* req.body of POST /auth/register *)
RegisterBodies == [username : Usernames, password : {"pw123456"}, email : Emails]

(* username and password of POST /auth/login; "" stands for a missing field *)
LoginUsernames == Usernames \cup {""}
LoginPasswords == Passwords \cup {""}

(* POST /auth/register up to the answer of getUserByUsername: 400 when the
   name is taken, else the request goes on to the insert *)
RegisterLookup(body) ==
    IF getUserByUsername(users, body.username) # {}
    THEN /\ resp' = Response("POST /auth/register", 400, 0, 0,
                             [error |-> "Username already exists"])
         /\ UNCHANGED <<users, userSeq, rows, kind, process, createdFor, now, issued, sync, failed, regs, oauths>>
    ELSE /\ Len(regs) < MaxRegs
         /\ regs' = Append(regs, body)
         /\ resp' = NoResponse
         /\ UNCHANGED <<users, userSeq, rows, kind, process, createdFor, now, issued, sync, failed, oauths>>

RemoveAt(s, i) == SubSeq(s, 1, i - 1) \o SubSeq(s, i + 1, Len(s))

(* the rest of POST /auth/register: hash, insert, token, 201; an insert the
   database refuses throws, and the catch answers 500 with its message *)
RegisterInsert(i) ==
    LET body == regs[i]
        insertUser == [username |-> body.username,
                       password |-> hashPassword(body.password),
                       email |-> body.email]
        violated == uniqueViolation(users, insertUser)
        user == createUser(userSeq + 1, insertUser)
        token == generateToken([id |-> user.id, username |-> user.username])
    IN  /\ regs' = RemoveAt(regs, i)
        /\ IF violated # "none"
           THEN /\ resp' = Response("POST /auth/register", 500, 0, 0, [error |-> violated])
                /\ UNCHANGED <<users, userSeq, issued>>
           ELSE /\ users' = users \cup {user}
                /\ userSeq' = userSeq + 1
                /\ issued' = issued \cup {token}
                /\ resp' = Response("POST /auth/register", 201, 0, 0,
                                    [token |-> token,
                                     user |-> [id |-> user.id, username |-> user.username]])
        /\ UNCHANGED <<rows, kind, process, createdFor, now, sync, failed, oauths>>

(* a login that compares only when the account has a hash *)
loginSkippingNullHash(us, username, password) ==
    LET found == {x \in us : x.username = username}
    IN  IF found = {} THEN [ok |-> FALSE, error |-> "User not found"]
        ELSE LET user == CHOOSE x \in found : TRUE
             IN  IF user.password # Null /\ ~comparePasswords(password, user.password)
                 THEN [ok |-> FALSE, error |-> "Invalid password"]
                 ELSE [ok |-> TRUE, user |-> user]

(* auth.ts login, up to the update of lastLogin: the user found, or the
   message of the Error thrown.  bcrypt.compare throws on a null hash. *)
loginOutcome(us, username, password) ==
    LET found == {x \in us : x.username = username}
    IN  IF found = {} THEN [ok |-> FALSE, error |-> "User not found"]
        ELSE LET user == CHOOSE x \in found : TRUE
             IN  IF user.password = Null
                 THEN [ok |-> FALSE, error |-> "data and hash arguments required"]
                 ELSE IF ~comparePasswords(password, user.password)
                 THEN [ok |-> FALSE, error |-> "Invalid password"]
                 ELSE [ok |-> TRUE, user |-> user]

(* the response of POST /auth/login at time t *)
LoginResponse(us, username, password, t) ==
    LET out == loginOutcome(us, username, password)
    IN  IF username = "" \/ password = ""
        THEN Response("POST /auth/login", 400, 0, 0,
                      [error |-> "Username and password are required"])
        ELSE IF ~out.ok
        THEN Response("POST /auth/login", 401, 0, 0, [error |-> out.error])
        ELSE Response("POST /auth/login", 200, 0, 0,
                      [token |-> generateTokenAt(out.user, t),
                       user |-> [id |-> out.user.id, username |-> out.user.username]])

(* POST /auth/login *)
LoginHandler(username, password) ==
    LET out == loginOutcome(users, username, password)
    IN  /\ resp' = LoginResponse(users, username, password, now)
        /\ IF username # "" /\ password # "" /\ out.ok
           THEN /\ users' = {IF x.id = out.user.id THEN [x EXCEPT !.lastLogin = Date(now)]
                             ELSE x : x \in users}
                /\ issued' = issued \cup {generateToken(out.user)}
           ELSE UNCHANGED <<users, issued>>
        /\ UNCHANGED <<userSeq, rows, kind, process, createdFor, now, sync, failed, regs, oauths>>

(* the whole row *)
withPassword(user) == user

(* const {password, ...userWithoutPassword} = user *)
withoutPassword(user) == [f \in (DOMAIN user) \ {"password"} |-> user[f]]

(* GET /users/me *)
UsersMeHandler(user) ==
    LET found == getUser(users, user.id)
    IN  /\ resp' = IF found = {}
                   THEN Response("GET /users/me", 404, user.id, 0, [error |-> "User not found"])
                   ELSE Response("GET /users/me", 200, user.id, 0,
                                 withoutPassword(CHOOSE x \in found : TRUE))
        /\ UNCHANGED <<users, userSeq, rows, kind, process, createdFor, now, issued, sync, failed, regs, oauths>>

Register == \E body \in RegisterBodies : RegisterLookup(body)

Insert == \E i \in 1..Len(regs) : RegisterInsert(i)

Login == \E username \in LoginUsernames, password \in LoginPasswords :
            LoginHandler(username, password)

UsersMe ==
    \E a \in Authentications :
        IF a.ok THEN UsersMeHandler(a.user) ELSE Reject("GET /users/me", a)

(* time passes *)
Tick ==
    /\ now < MaxTime
    /\ now' = now + 1
    /\ resp' = NoResponse
    /\ UNCHANGED <<users, userSeq, rows, kind, process, createdFor, issued, sync, failed, regs, oauths>>

(* The account routes start from an empty database. *)
InitAuth ==
    /\ users = {}
    /\ userSeq = 0
    /\ rows = {}
    /\ kind = "incomes"
    /\ createdFor = <<>>
    /\ failed = FALSE
    /\ oauths = <<>>
    /\ now = 0
    /\ issued = {}
    /\ sync = 0
    /\ regs = <<>>
    /\ request = NoRequest
    /\ pool = "open"
    /\ cleanups = <<>>
    /\ exited = FALSE
    /\ resp = NoResponse

NextAuth ==
    \/ Register
    \/ Insert
    \/ Login
    \/ UsersMe
    \/ Tick

SpecAuth == InitAuth /\ [][NextAuth]_vars

----------------------------------------------------------------------------
(* routes.ts and google-auth.ts: sign-in with Google *)

(* ticket.getPayload() for the code of the request: the subject id and the
   address of a Google account.  The local part of the first is a username a
   registration may take, the second is an address a registration may give. *)
Payloads == {[sub |-> [sub |-> "g1"], email |-> <<"alice", "gmail.com">>],
             [sub |-> [sub |-> "g2"], email |-> <<"a", "x.com">>]}

(* req.body of the POST /auth/register that competes with the sign-ins *)
LocalBodies == {b \in RegisterBodies : b.username = "alice"}

(* a request without code, or with a code Google refuses *)
NoPayload == [invalid |-> TRUE]

(* email.split('@')[0], the local part of an address being non-empty *)
localPart(email) == email[1]

Redirect(token) ==
    Response("GET /auth/google/callback", 302, 0, 0,
             [location |-> "/auth/callback", token |-> token])

RedirectFailed ==
    Response("GET /auth/google/callback", 302, 0, 0,
             [location |-> "/auth", error |-> "google_auth_failed"])

(* the end of the callback route for `user` of the table us: token,
   lastLogin, redirect *)
GoogleSignedIn(us, user) ==
    /\ users' = updateUser(us, user.id, [lastLogin |-> Date(now)])
    /\ issued' = issued \cup {generateToken(user)}
    /\ resp' = Redirect(generateToken(user))

(* GET /auth/google/callback up to the answer of getUserByGoogleId: a user
   found is signed in, else the request goes on to the insert *)
GoogleLookup(payload) ==
    LET found == getUserByGoogleId(users, payload.sub)
    IN  IF payload = NoPayload
        THEN /\ resp' = RedirectFailed
             /\ UNCHANGED <<users, userSeq, rows, kind, process, createdFor, now, issued, sync, failed,
                            regs, oauths>>
        ELSE IF found # {}
        THEN /\ GoogleSignedIn(users, CHOOSE x \in found : TRUE)
             /\ UNCHANGED <<userSeq, rows, kind, process, createdFor, now, sync, failed, regs, oauths>>
        ELSE /\ Len(oauths) < MaxSignIns
             /\ oauths' = Append(oauths, payload)
             /\ resp' = NoResponse
             /\ UNCHANGED <<users, userSeq, rows, kind, process, createdFor, now, issued, sync, failed,
                            regs>>

(* the rest of GET /auth/google/callback for a subject that was not found:
   createGoogleUser, token, lastLogin, redirect; an insert the database
   refuses throws, and the catch redirects with the error *)
GoogleInsert(i) ==
    LET payload == oauths[i]
        userData == [username |-> localPart(payload.email), email |-> payload.email,
                     googleId |-> payload.sub]
        violated == uniqueViolation(users, userData)
        user == createGoogleUser(userSeq + 1, userData, now)
    IN  /\ oauths' = RemoveAt(oauths, i)
        /\ IF violated # "none"
           THEN /\ resp' = RedirectFailed
                /\ UNCHANGED <<users, userSeq, issued>>
           ELSE /\ GoogleSignedIn(users \cup {user}, user)
                /\ userSeq' = userSeq + 1
        /\ UNCHANGED <<rows, kind, process, createdFor, now, sync, failed, regs>>

(* google-auth.ts handleGoogleCallback(code), its lookup and its insert taken
   in one step: the value returned, or the error thrown *)
handleGoogleCallback(payload) ==
    LET found == getUserByGoogleId(users, payload.sub)
        insertUser == [username |-> localPart(payload.email), email |-> payload.email,
                       googleId |-> payload.sub]
        violated == uniqueViolation(users, insertUser)
        user == IF found # {} THEN CHOOSE x \in found : TRUE
                ELSE createUser(userSeq + 1, insertUser)
        token == generateToken(user)
    IN  /\ IF found = {} /\ violated # "none"
           THEN /\ resp' = Response("handleGoogleCallback", 0, 0, 0, [error |-> violated])
                /\ UNCHANGED <<users, userSeq, issued>>
           ELSE /\ users' = users \cup {user}
                /\ userSeq' = IF found = {} THEN userSeq + 1 ELSE userSeq
                /\ issued' = issued \cup {token}
                /\ resp' = Response("handleGoogleCallback", 0, 0, 0,
                                    [token |-> token,
                                     user |-> [id |-> user.id, username |-> user.username,
                                               email |-> user.email]])
        /\ UNCHANGED <<rows, kind, process, createdFor, now, sync, failed, regs, oauths>>

GoogleCallback == \E payload \in Payloads \cup {NoPayload} : GoogleLookup(payload)

GoogleCreate == \E i \in 1..Len(oauths) : GoogleInsert(i)

HandleGoogleCallback == \E payload \in Payloads : handleGoogleCallback(payload)

RegisterLocal == \E body \in LocalBodies : RegisterLookup(body)

(* registration and the Google callback route *)
NextOAuth ==
    \/ RegisterLocal
    \/ Insert
    \/ GoogleCallback
    \/ GoogleCreate
    \/ Tick

SpecOAuth == InitAuth /\ [][NextOAuth]_vars

(* the same at one instant, with calls of the exported handleGoogleCallback *)
NextGoogleAuth ==
    \/ RegisterLocal
    \/ Insert
    \/ GoogleCallback
    \/ GoogleCreate
    \/ HandleGoogleCallback

SpecGoogleAuth == InitAuth /\ [][NextGoogleAuth]_vars

----------------------------------------------------------------------------
(* Ownership of the records *)

Identity(u) == [id |-> u, username |-> SeedUsernames[u]]

(* an id no request has generated *)
NoSuchId == MaxRecords + 1

(* id names a stored record that was created for a user other than u *)
OfAnotherUser(id, u) ==
    /\ id \in 1..Len(createdFor)
    /\ createdFor[id] # u
    /\ \E r \in rows : r.id = id

OwnedBy(u) == {mapRecord(r) : r \in {x \in rows : createdFor[x.id] = u}}

SameAnswer(r1, r2) == r1.status = r2.status /\ r1.body = r2.body

(* C1: a get-by-id of a record created for user U, issued by another user,
   finds nothing in the repository and is answered 404 not found, whatever
   creates, syncs and deletes came before. *)
C1_GetByAnotherUserNotFound ==
    /\ \A id \in 1..Len(createdFor), u \in UserIds :
          createdFor[id] # u => getRecord(rows, id, u) = {}
    /\ (resp.route = "GET /:id" /\ resp.caller # 0
            /\ resp.id \in 1..Len(createdFor) /\ createdFor[resp.id] # resp.caller)
       => (resp.status = 404 /\ resp.body = [error |-> NotFound[kind]])

C1_Witness ==
    /\ kind = "incomes"
    /\ resp.route = "GET /:id"
    /\ resp.caller # 0
    /\ OfAnotherUser(resp.id, resp.caller)
    /\ resp.status = 404

(* a step of a delete, or of a bulk sync (its start, one of its elements, its
   answer), made for user u *)
WriteBy(u) ==
    \/ \E id \in IdParams : DeleteHandler(Identity(u), id)
    \/ SyncStartHandler(Identity(u))
    \/ sync = u /\ \E e \in Elements : SyncElemHandler(e)
    \/ sync = u /\ SyncFinish

(* C2: no update, bulk sync or delete request of user U' changes a field,
   the owner included, of a record owned by another user U, or removes it. *)
C2_WritesLeaveOtherUsersRecords ==
    [][\A r \in rows : \A u \in UserIds :
        (createdFor[r.id] # u /\ r \notin rows') => ~WriteBy(u)]_vars

C2_Witness ==
    /\ resp.route = "DELETE /:id"
    /\ resp.caller # 0
    /\ OfAnotherUser(resp.id, resp.caller)
    /\ \E r \in rows : r.id = resp.id /\ r.userId = createdFor[resp.id]

(* C3: a get-by-id, a delete-by-id and an update element of a bulk sync that
   name a record of another user do what they do for an id that does not
   exist: the same status and body, and the same effect on the table. *)
C3_OtherUsersIdLikeNoId ==
    [][\A u \in UserIds, id \in IdParams :
        OfAnotherUser(id, u) =>
            /\ (resp'.caller = u /\ resp'.id = id /\ GetHandler(Identity(u), id))
                 => SameAnswer(resp', GetResponse(rows, kind, u, NoSuchId))
            /\ (resp'.caller = u /\ resp'.id = id /\ DeleteHandler(Identity(u), id))
                 => /\ SameAnswer(resp', DeleteResponse(u, NoSuchId))
                    /\ rows' = deleteRecord(rows, NoSuchId, u)
            /\ (sync = u /\ sync' = u /\ resp' = NoResponse)
                 => \A e \in Elements :
                       (e.id = id /\ SyncElemHandler(e))
                           => SyncElemHandler([e EXCEPT !.id = NoSuchId])]_vars

C3_Witness ==
    /\ kind = "goals"
    /\ resp.route = "GET /:id"
    /\ resp.caller # 0
    /\ OfAnotherUser(resp.id, resp.caller)
    /\ SameAnswer(resp, GetResponse(rows, kind, resp.caller, NoSuchId))

(* C4: DELETE /goals/:id of a goal owned by another user is answered 404. *)
C4_DeleteOtherUsersGoalIs404 ==
    (kind = "goals" /\ resp.route = "DELETE /:id" /\ resp.caller # 0
        /\ OfAnotherUser(resp.id, resp.caller))
    => resp.status = 404

(* C5: the list of user U is exactly the set of records U owns now: all of
   them, and no record of anyone else. *)
C5_ListIsExactlyOwnRecords ==
    /\ \A u \in UserIds : getAllRecords(rows, u) = OwnedBy(u)
    /\ (resp.route = "GET /" /\ resp.caller # 0) => resp.body.list = OwnedBy(resp.caller)

C5_Witness ==
    /\ resp.route = "GET /"
    /\ resp.caller # 0
    /\ resp.body.list # {}
    /\ \E r \in rows : createdFor[r.id] # resp.caller

----------------------------------------------------------------------------
(* Authentication *)

(* a token the server has handed out, inside its validity window *)
Valid(h) == h \in issued /\ ~Expired(h)

ProtectedRoutes == {"GET /", "GET /:id", "POST /", "PUT /", "DELETE /:id", "GET /users/me"}

(* C6: on a protected route a missing token is answered 401 and an expired
   or re-signed or altered one 403, and such a request changes nothing: no
   handler or repository call has run.  A handler runs only for the id and
   username of a token the server signed and that has not expired. *)
C6_InvalidTokenRejectedBeforeHandler ==
    /\ [](\A h \in Headers :
            LET a == authenticateToken(h)
            IN  /\ h = NoHeader => (~a.ok /\ a.status = 401)
                /\ (h # NoHeader /\ ~Valid(h)) => (~a.ok /\ a.status = 403)
                /\ a.ok => (Valid(h) /\ a.user = [id |-> h.id, username |-> h.username]))
    /\ [][/\ (resp'.route \in ProtectedRoutes /\ resp'.caller = 0)
               => /\ \E h \in Headers :
                       /\ ~Valid(h)
                       /\ resp'.status = IF h = NoHeader THEN 401 ELSE 403
                  /\ UNCHANGED <<users, userSeq, rows, createdFor, issued, sync, failed, regs, oauths>>
          /\ resp'.caller # 0
               => \E h \in issued : Valid(h) /\ h.id = resp'.caller
          /\ (sync = 0 /\ sync' # 0)
               => \E h \in issued : Valid(h) /\ h.id = sync'
          /\ rows' # rows
               => \E h \in issued :
                       /\ Valid(h)
                       /\ h.id = IF sync # 0 /\ resp' = NoResponse THEN sync ELSE resp'.caller
         ]_vars

C6_Witness ==
    /\ resp.route = "DELETE /:id"
    /\ resp.status = 403
    /\ resp.caller = 0
    /\ rows # {}
    /\ \E h \in Headers : h # NoHeader /\ ~Valid(h) /\ ~Expired(h)

(* a username no request ever registers *)
NeverRegistered == "mallory"

(* C7: a failed login is answered with the same status and error message
   as a login with a username that does not exist. *)
C7_FailedLoginSameAsUnknownUsername ==
    (resp.route = "POST /auth/login" /\ resp.status = 401)
    => SameAnswer(resp, LoginResponse(users, NeverRegistered, "pw123456", now))

(* the password p is the one stored for username u *)
Verifies(u, p) == \E x \in users : x.username = u /\ x.password = [bcrypt |-> p]

(* C8: a login that carries a username and a password, where the username
   is unknown or the password is not the stored one, is answered 401 with no
   token, hands out no token and leaves the users table as it was; a login
   changes lastLogin only of the user it answers 200 for. *)
C8_FailedLoginChangesNothing ==
    [][/\ \A u \in LoginUsernames \ {""}, p \in LoginPasswords \ {""} :
            (LoginHandler(u, p) /\ ~Verifies(u, p))
            => /\ resp'.status = 401
               /\ DOMAIN resp'.body = {"error"}
               /\ issued' = issued
               /\ users' = users
       /\ \A x \in users, y \in users' :
            (x.id = y.id /\ x.lastLogin # y.lastLogin)
            => /\ resp'.route = "POST /auth/login"
               /\ resp'.status = 200
               /\ resp'.body.user.id = x.id
               /\ Verifies(x.username, CHOOSE p \in Passwords : x.password = [bcrypt |-> p])
      ]_vars

C8_Witness ==
    /\ resp.route = "POST /auth/login"
    /\ resp.status = 401
    /\ resp.body = [error |-> "Invalid password"]
    /\ \E x \in users : x.lastLogin # Null

AccountRoutes == {"POST /auth/register", "POST /auth/login", "GET /users/me"}

(* C9: no response of register, login or users/me has a password field, at
   the top or in its user object; a registration that creates a user answers
   201 with a token for that user and a user object of exactly id and
   username. *)
C9_NoPasswordInResponses ==
    [][/\ resp'.route \in AccountRoutes
            => /\ "password" \notin DOMAIN resp'.body
               /\ "user" \in DOMAIN resp'.body => "password" \notin DOMAIN resp'.body.user
       /\ users' \ users # {} /\ Cardinality(users') > Cardinality(users)
            => \E x \in users' \ users :
                    /\ resp'.route = "POST /auth/register"
                    /\ resp'.status = 201
                    /\ DOMAIN resp'.body = {"token", "user"}
                    /\ resp'.body.user = [id |-> x.id, username |-> x.username]
                    /\ resp'.body.token = generateTokenAt(x, now)
      ]_vars

C9_Witness ==
    /\ resp.route = "GET /users/me"
    /\ resp.status = 200
    /\ \E x \in users : x.id = resp.caller /\ x.password # Null /\ x.lastLogin # Null

UsernamesUnique == \A x, y \in users : x.username = y.username => x = y

Taken(username) == \E x \in users : x.username = username

(* C10: no two users ever share a username, however registrations
   interleave; a registration that finds its username taken, at its lookup
   or at its insert, creates no user and is answered with an error status. *)
C10_UsernamesUniqueUnderRaces ==
    /\ []UsernamesUnique
    /\ [][\A body \in RegisterBodies :
            Taken(body.username) =>
                /\ RegisterLookup(body) => (users' = users /\ resp'.status = 400)
                /\ \A i \in 1..Len(regs) :
                      (regs[i] = body /\ RegisterInsert(i))
                      => (users' = users /\ resp'.status = 500)
         ]_vars

C10_Witness ==
    /\ resp.route = "POST /auth/register"
    /\ resp.status = 500
    /\ resp.body = [error |-> "users_username_unique"]
    /\ Cardinality(users) = 1

----------------------------------------------------------------------------
(* Validation of the writes *)

(* C11: on every write route the body is validated against the schema before
   anything is persisted: a POST whose body the schema refuses, and an element
   of a bulk sync whose fields the schema refuses, is answered 400 and leaves
   the table as it was. *)
C11_InvalidWriteIs400AndPersistsNothing ==
    [][/\ \A u \in UserIds, body \in Bodies :
            (resp'.route = "POST /" /\ ~schemaAccepts(kind, postData(kind, body, u))
                /\ PostHandler(Identity(u), body))
            => (resp'.status = 400 /\ rows' = rows)
       /\ \A e \in Elements :
            (sync # 0 /\ sync' = sync /\ ~schemaAccepts(kind, syncData(kind, e))
                /\ SyncElemHandler(e))
            => (resp'.status = 400 /\ rows' = rows)
      ]_vars

(* C12: the numeric field of every persisted record is a number that is not
   negative. *)
C12_PersistedNumbersNonNegative ==
    \A r \in rows : parseFloat(r.amount).t = "num" /\ parseFloat(r.amount).v >= 0

----------------------------------------------------------------------------
(* Bulk sync *)

Ids(rs) == {r.id : r \in rs}

RowOf(rs, id) == CHOOSE r \in rs : r.id = id

(* C13: in a bulk sync of user U in which no write fails, an element that
   carries the id of a record of U changes that record in place (the same ids
   and owners before and after, the record reads back the element's value),
   an element without an id adds exactly one record, with a new id, owned by
   U and reading back the element's value, and the answer is 200 with exactly
   the records of U as they are after the writes. *)
C13_SyncUpdatesInPlaceCreatesOneAnswersList ==
    [][/\ (sync # 0 /\ sync' = sync /\ resp' = NoResponse /\ ~failed /\ ~failed')
            => \A e \in Elements :
                 /\ (e.id = 0 /\ createdFor' # createdFor /\ SyncElemHandler(e))
                    => \E r \in rows' :
                          /\ rows' = rows \cup {r}
                          /\ r.id \notin Ids(rows)
                          /\ r.id \notin 1..Len(createdFor)
                          /\ r.userId = sync
                          /\ mapRecord(r).amount = e.amount
                 /\ (e.id # 0 /\ createdFor' = createdFor
                        /\ (\E r \in rows : r.id = e.id /\ createdFor[r.id] = sync)
                        /\ SyncElemHandler(e))
                    => /\ Cardinality(rows') = Cardinality(rows)
                       /\ Ids(rows') = Ids(rows)
                       /\ \A r \in rows : r.id # e.id => r \in rows'
                       /\ RowOf(rows', e.id).userId = sync
                       /\ RowOf(rows', e.id).createdAt = RowOf(rows, e.id).createdAt
                       /\ mapRecord(RowOf(rows', e.id)).amount = e.amount
       /\ (sync # 0 /\ sync' = 0 /\ ~failed)
            => /\ resp'.route = "PUT /"
               /\ resp'.status = 200
               /\ resp'.caller = sync
               /\ resp'.body = [list |-> OwnedBy(sync)]
               /\ rows' = rows
      ]_vars

(* a bulk sync has been answered with two records, one of them holding a
   value only a bulk sync can write to the table *)
C13_Witness ==
    /\ kind = "assets"
    /\ resp.route = "PUT /"
    /\ resp.status = 200
    /\ Cardinality(resp.body.list) = 2
    /\ \E r \in resp.body.list : r.amount = Num(-1)
    /\ \E r \in resp.body.list : r.amount = Num(5000)

(* C14: when the write of one element of a bulk sync fails, nothing is rolled
   back: the failing step and the end of the request leave the table as the
   other elements' writes made it, and an element that runs after the failure
   is still written.  The request is answered once, by the 500 sent at the
   first failure; it is not answered again. *)
C14_FailedSyncKeepsWritesAnswers500Once ==
    /\ [](failed => sync # 0)
    /\ [][/\ \A e \in PartialElements :
               (sync # 0 /\ failed' /\ e.id = 0 /\ createThrows(syncData(kind, e))
                    /\ SyncElemHandler(e))
               => /\ rows' = rows
                  /\ ~failed => /\ resp'.route = "PUT /"
                                /\ resp'.status = 500
                                /\ resp'.caller = sync
                                /\ resp'.body = [error |-> SyncFailed[kind]]
          /\ failed => /\ ~(resp'.route = "PUT /" /\ resp'.caller = sync)
                       /\ sync' = 0 => rows' = rows
                       /\ \A e \in Elements :
                            (e.id = 0 /\ createdFor' # createdFor /\ SyncElemHandler(e))
                            => \E r \in rows' \ rows :
                                  r.userId = sync /\ mapRecord(r).amount = e.amount
         ]_vars

(* a bulk sync that failed has ended, and the table holds two records with a
   value that only elements of a bulk sync can write *)
C14_Witness ==
    /\ kind = "assets"
    /\ sync = 0
    /\ resp = NoResponse
    /\ Cardinality(rows) = 2
    /\ \A r \in rows : mapRecord(r).amount = Num(-1)

----------------------------------------------------------------------------
(* Creates *)

(* C15: creates never conflict.  No two records share an id; a POST whose
   body the schema accepts, and an element of a bulk sync without an id, adds
   one record and touches no other: its id is new (no record has it and no
   earlier create was given it), it has a createdAt, it is owned by the caller
   and it reads back the value given; the POST is answered 200 with it. *)
C15_CreatesNeverConflict ==
    /\ [](\A r1, r2 \in rows : r1.id = r2.id => r1 = r2)
    /\ [][/\ resp'.route = "POST /" /\ resp'.status = 200
               => \A body \in Bodies :
                    PostHandler(Identity(resp'.caller), body)
                    => \E r \in rows' :
                          /\ rows' = rows \cup {r}
                          /\ r.id \notin Ids(rows) \cup 1..Len(createdFor)
                          /\ r.createdAt = Date(now)
                          /\ r.userId = resp'.caller
                          /\ mapRecord(r).amount = body.amount
                          /\ resp'.body = [record |-> mapRecord(r)]
          /\ resp'.route = "POST /" /\ resp'.status # 200 /\ resp'.caller # 0
               => \A body \in Bodies :
                    schemaAccepts(kind, postData(kind, body, resp'.caller))
                    => ~PostHandler(Identity(resp'.caller), body)
          /\ (sync # 0 /\ createdFor' # createdFor /\ resp' = NoResponse)
               => \A e \in Elements :
                    (e.id = 0 /\ SyncElemHandler(e))
                    => \E r \in rows' :
                          /\ rows' = rows \cup {r}
                          /\ r.id \notin Ids(rows) \cup 1..Len(createdFor)
                          /\ r.createdAt = Date(now)
                          /\ r.userId = sync
                          /\ mapRecord(r).amount = e.amount
         ]_vars

(* a second record has been created while the first is in the table *)
C15_Witness ==
    /\ resp.route = "POST /"
    /\ resp.status = 200
    /\ Cardinality(rows) = 2
    /\ \E r \in rows : mapRecord(r) = resp.body.record /\ r.id = 2
    /\ \E r \in rows : r.id = 1 /\ r.userId # resp.caller

(* what the owner reads of record id: by GET /:id and in the list *)
ReadById(rs, id, u) == GetResponse(rs, kind, u, id)

ReadInList(rs, id, u) == {m \in getAllRecords(rs, u) : m.id = id}

(* C16: round trip of the numeric field.  Right after a create (a POST, or an
   element of a bulk sync without an id) the owner reads the new record, by id
   and in the list, with the number the create was given; and a stored record
   is rewritten by no step other than an update element of a bulk sync of its
   owner that names it, so the owner goes on reading that number until such
   an update. *)
C16_ReadReturnsNumberGiven ==
    [][/\ resp'.route = "POST /" /\ resp'.status = 200
            => \A body \in Bodies :
                 PostHandler(Identity(resp'.caller), body)
                 => LET id == Len(createdFor')
                        u == resp'.caller
                    IN  /\ ReadById(rows', id, u).status = 200
                        /\ ReadById(rows', id, u).body.record.amount = body.amount
                        /\ \E m \in ReadInList(rows', id, u) : TRUE
                        /\ \A m \in ReadInList(rows', id, u) : m.amount = body.amount
       /\ (sync # 0 /\ createdFor' # createdFor /\ resp' = NoResponse)
            => \A e \in Elements :
                 (e.id = 0 /\ SyncElemHandler(e))
                 => LET id == Len(createdFor')
                    IN  /\ ReadById(rows', id, sync).status = 200
                        /\ ReadById(rows', id, sync).body.record.amount = e.amount
                        /\ \E m \in ReadInList(rows', id, sync) : TRUE
                        /\ \A m \in ReadInList(rows', id, sync) : m.amount = e.amount
       /\ \A r \in rows :
            (r \notin rows' /\ r.id \in Ids(rows'))
            => /\ sync = r.userId
               /\ resp' = NoResponse
               /\ \E e \in Elements : e.id = r.id /\ SyncElemHandler(e)
      ]_vars

(* the owner has read by id a record that holds a number of several digits,
   and one that holds a negative number *)
C16_Witness ==
    /\ resp.route = "GET /:id"
    /\ resp.status = 200
    /\ createdFor[resp.id] = resp.caller
    /\ resp.body.record.amount = Num(5000)
    /\ \E r \in rows : r.id # resp.id /\ mapRecord(r).amount = Num(-1)

----------------------------------------------------------------------------
(* Notes *)

(* C17: a read returns the notes as absent when they are stored as absent
   (null) and when they are stored as the empty string: so does the mapping of
   every stored row, and so does every record in a response. *)
C17_EmptyNotesReadAsAbsent ==
    /\ \A r \in rows :
          r.notes \in {Null, Str("")} => mapRecord(r).notes = Undefined
    /\ (resp.route = "GET /:id" /\ resp.status = 200)
          => \A r \in rows :
                (r.id = resp.id /\ r.notes \in {Null, Str("")})
                => resp.body.record.notes = Undefined
    /\ (resp.route = "GET /" /\ resp.status = 200)
          => \A m \in resp.body.list : \A r \in rows :
                (r.id = m.id /\ r.notes \in {Null, Str("")}) => m.notes = Undefined

----------------------------------------------------------------------------
(* Sign-in with Google *)

UserIdsOf(us) == {x.id : x \in us}

Known(sub) == getUserByGoogleId(users, sub) # {}

(* C18: however Google sign-ins interleave, no two users have the same Google
   subject id; a sign-in whose subject id is known adds no user and hands out
   the token of the user that has it; a sign-in whose subject id is unknown
   when it comes to its insert adds exactly one user, with that subject id and
   with the local part of the address as username. *)
C18_OneUserPerGoogleSubject ==
    /\ [](\A x, y \in users : (x.googleId # Null /\ x.googleId = y.googleId) => x = y)
    /\ [][\A payload \in Payloads :
            /\ (Known(payload.sub) /\ GoogleLookup(payload))
                => /\ UserIdsOf(users') = UserIdsOf(users)
                   /\ Cardinality(users') = Cardinality(users)
                   /\ resp' = Redirect(resp'.body.token)
                   /\ \E x \in users : /\ x.googleId = payload.sub
                                       /\ resp'.body.token.id = x.id
                                       /\ resp'.body.token.username = x.username
            /\ \A i \in 1..Len(oauths) :
                 (oauths[i] = payload /\ ~Known(payload.sub) /\ GoogleInsert(i))
                 => /\ Cardinality(users') = Cardinality(users) + 1
                    /\ \E x \in users' :
                          /\ x.id \notin UserIdsOf(users)
                          /\ x.googleId = payload.sub
                          /\ x.username = localPart(payload.email)
         ]_vars

(* C19: no Google sign-in hands out a token, in the redirect of the callback
   route or in the value handleGoogleCallback returns, without having set the
   lastLogin of the user the token is for to the time of the sign-in. *)
C19_TokenOnlyWithLastLoginUpdated ==
    [][(resp'.route \in {"GET /auth/google/callback", "handleGoogleCallback"}
            /\ "token" \in DOMAIN resp'.body)
        => \E x \in users' : x.id = resp'.body.token.id /\ x.lastLogin = Date(now)
      ]_vars

(* C20: the password of an account is null exactly when the account was
   created by a Google sign-in: every step that adds a user is a registration,
   which stores a hash, or a Google sign-in, which stores null and the subject
   id; and no step changes the password or the subject id of an account. *)
C20_PasswordNullIffGoogleAccount ==
    /\ [](\A x \in users : x.password = Null <=> x.googleId # Null)
    /\ [][/\ \A x \in users' :
               x.id \notin UserIdsOf(users)
               => IF resp'.route = "POST /auth/register"
                  THEN /\ x.password = hashPassword("pw123456")
                       /\ x.password # Null
                       /\ x.googleId = Null
                  ELSE /\ resp'.route \in {"GET /auth/google/callback",
                                           "handleGoogleCallback"}
                       /\ x.password = Null
                       /\ x.googleId # Null
          /\ \A x \in users : \A y \in users' :
               x.id = y.id => (y.password = x.password /\ y.googleId = x.googleId)
         ]_vars

(* a registered account and an account created by a Google sign-in, the
   latter just signed in *)
C20_Witness ==
    /\ resp.route = "GET /auth/google/callback"
    /\ "token" \in DOMAIN resp.body
    /\ \E x \in users : x.id = resp.body.token.id /\ x.password = Null /\ x.googleId # Null
    /\ \E x \in users : x.password # Null /\ x.googleId = Null

----------------------------------------------------------------------------
(* ai-assistant.ts: the advice generator.  A string is the sequence of its
   characters; the advice is the template chosen and what is interpolated
   into it. *)

MaxWords == 4       \* words or phrases in a query

Words ==
    {<<"R", "e", "d", "u", "c", "e">>,
     <<"e", "x", "p", "e", "n", "s", "e", "s">>,
     <<"s", "p", "e", "n", "d", "i", "n", "g">>,
     <<"i", "n", "c", "r", "e", "a", "s", "e">>,
     <<"a", "s", "s", "e", "t", "s">>,
     <<"l", "i", "a", "b", "i", "l", "i", "t", "y">>,
     <<"p", "a", "y", " ", "o", "f", "f">>,
     <<"g", "o", "a", "l">>,
     <<"r", "e", "a", "c", "h">>,
     <<"m", "y">>}

RECURSIVE join(_)
join(ws) ==
    IF ws = <<>> THEN <<>>
    ELSE IF Len(ws) = 1 THEN ws[1]
    ELSE ws[1] \o <<" ">> \o join(Tail(ws))

Queries == {join(ws) : ws \in UNION {[1..n -> Words] : n \in 0..MaxWords}}

UpperCase == <<"A", "B", "C", "D", "E", "F", "G", "H", "I", "J", "K", "L", "M", "N", "O", "P", "Q", "R", "S", "T", "U", "V", "W", "X", "Y", "Z">>
LowerCase == <<"a", "b", "c", "d", "e", "f", "g", "h", "i", "j", "k", "l", "m", "n", "o", "p", "q", "r", "s", "t", "u", "v", "w", "x", "y", "z">>

(* the lower-case letter of each upper-case letter *)
LowerCaseOf ==
    [c \in {UpperCase[k] : k \in 1..Len(UpperCase)} |->
        LowerCase[CHOOSE k \in 1..Len(UpperCase) : UpperCase[k] = c]]

(* String.prototype.toLowerCase *)
toLowerCase(s) ==
    [i \in 1..Len(s) |-> IF s[i] \in DOMAIN LowerCaseOf THEN LowerCaseOf[s[i]] ELSE s[i]]

(* String.prototype.includes *)
includes(s, sub) ==
    \E i \in 0..(Len(s) - Len(sub)) : SubSeq(s, i + 1, i + Len(sub)) = sub

(* the clock reads 0 at noon of the last day of a month; a month has 30 days
   of two ticks *)
TicksPerMonth == 2 * 30

(* 12 * getFullYear() + getMonth(), counted from the month of tick 0 *)
monthOf(d) == (d.date + TicksPerMonth - 1) \div TicksPerMonth

Infinity == [t |-> "inf"]

(* (num / den * 100).toFixed(digits) of non-negative integers, in units of
   10^-digits: the nearest one *)
percentFixed(num, den, digits) ==
    LET unit == IF digits = 0 THEN 1 ELSE 10
    IN  IF den = 0 THEN (IF num = 0 THEN NaN ELSE Infinity)
        ELSE Num((2 * num * 100 * unit + den) \div (2 * den))

RECURSIVE sumOf(_)
sumOf(xs) == IF xs = <<>> THEN 0 ELSE xs[1] + sumOf(Tail(xs))

generateExpenseReductionAdvice(expenses, totalExpenses, largestExpenseCategory, largestExpenseAmount) ==
    [template |-> "expenseReduction",
     category |-> largestExpenseCategory,
     percentage |-> percentFixed(largestExpenseAmount, totalExpenses, 1),
     tips |-> IF largestExpenseCategory \in {"Housing", "Transportation", "Food"}
              THEN largestExpenseCategory ELSE "other"]

generateAssetIncreaseAdvice(assets, netWorth, passiveIncome) ==
    LET has(c) == \E i \in 1..Len(assets) : assets[i].category = c
    IN  [template |-> "assetIncrease",
         realEstate |-> has("Real Estate"),
         investments |-> has("Investments"),
         business |-> has("Business")]

generateLiabilityReductionAdvice(liabilities, cashFlow) ==
    LET highInterest == \E i \in 1..Len(liabilities) : liabilities[i].interestRate > 5
        totalLiabilities == sumOf([i \in 1..Len(liabilities) |-> liabilities[i].amount.v])
        share == IF cashFlow * 100 <= 5 * totalLiabilities THEN Num(5)
                 ELSE IF cashFlow * 100 >= 20 * totalLiabilities THEN Num(20)
                 ELSE percentFixed(cashFlow, totalLiabilities, 0)
    IN  [template |-> "liabilityReduction",
         highInterest |-> highInterest,
         plan |-> IF totalLiabilities > 0 THEN share ELSE Undefined]

generateGoalAchievementAdvice(goals, cashFlow, netWorth, today) ==
    LET monthsUntilTarget(g) == monthOf(g.targetDate) - monthOf(today)
    IN  [template |-> "goalAchievement",
         shortTerm |-> \E i \in 1..Len(goals) : monthsUntilTarget(goals[i]) <= 12,
         longTerm |-> \E i \in 1..Len(goals) : monthsUntilTarget(goals[i]) > 12]

generateGeneralFinancialAdvice(incomes, expenses, assets, liabilities, goals, cashFlow, passiveIncome, netWorth) ==
    LET amountOf(x) == parseFloat(toString(x)).v
        active == SelectSeq(incomes, LAMBDA i : i.type = "active")
        activeIncome == sumOf([i \in 1..Len(active) |-> amountOf(active[i].amount)])
    IN  [template |-> "general",
         activeIncome |-> activeIncome,
         passivePercentage |-> IF activeIncome > 0
                               THEN percentFixed(passiveIncome, activeIncome, 1)
                               ELSE Num(0),
         totalExpenses |-> sumOf([i \in 1..Len(expenses) |-> amountOf(expenses[i].amount)]),
         totalAssets |-> sumOf([i \in 1..Len(assets) |-> amountOf(assets[i].value)]),
         totalLiabilities |->
             sumOf([i \in 1..Len(liabilities) |-> amountOf(liabilities[i].amount)]),
         netWorth |-> netWorth,
         goals |-> Len(goals)]

(* the keywords of the dispatch *)
AdviceKeywords ==
    [reduce |-> <<"r", "e", "d", "u", "c", "e">>, expense |-> <<"e", "x", "p", "e", "n", "s", "e">>,
     spending |-> <<"s", "p", "e", "n", "d", "i", "n", "g">>, increase |-> <<"i", "n", "c", "r", "e", "a", "s", "e">>,
     asset |-> <<"a", "s", "s", "e", "t">>, liability |-> <<"l", "i", "a", "b", "i", "l", "i", "t", "y">>,
     payOff |-> <<"p", "a", "y", " ", "o", "f", "f">>, goal |-> <<"g", "o", "a", "l">>,
     reach |-> <<"r", "e", "a", "c", "h">>]

(* the goal branch tried first *)
goalBranchFirst(lowerQuery) ==
    LET has(k) == includes(lowerQuery, AdviceKeywords[k])
    IN  IF has("goal") \/ has("reach") THEN "goalAchievement"
        ELSE IF has("reduce") /\ (has("expense") \/ has("spending")) THEN "expenseReduction"
        ELSE IF has("increase") /\ has("asset") THEN "assetIncrease"
        ELSE IF (has("reduce") \/ has("payOff")) /\ has("liability") THEN "liabilityReduction"
        ELSE "general"

(* the liability branch without "pay off" *)
branchWithoutPayOff(lowerQuery) ==
    LET has(k) == includes(lowerQuery, AdviceKeywords[k])
    IN  IF has("reduce") /\ (has("expense") \/ has("spending")) THEN "expenseReduction"
        ELSE IF has("increase") /\ has("asset") THEN "assetIncrease"
        ELSE IF has("reduce") /\ has("liability") THEN "liabilityReduction"
        ELSE IF has("goal") \/ has("reach") THEN "goalAchievement"
        ELSE "general"

(* the chain of if statements: the template of the first test that holds *)
branch(lowerQuery) ==
    LET has(k) == includes(lowerQuery, AdviceKeywords[k])
    IN  IF has("reduce") /\ (has("expense") \/ has("spending")) THEN "expenseReduction"
        ELSE IF has("increase") /\ has("asset") THEN "assetIncrease"
        ELSE IF (has("reduce") \/ has("payOff")) /\ has("liability") THEN "liabilityReduction"
        ELSE IF has("goal") \/ has("reach") THEN "goalAchievement"
        ELSE "general"

(* generateFinancialAdvice(request) when new Date() is `today` *)
generateFinancialAdvice(req, today) ==
    LET userData == req.userData
        summary == userData.summary
        chosen == branch(toLowerCase(req.query))
    IN  CASE chosen = "expenseReduction" ->
                generateExpenseReductionAdvice(userData.expenses, summary.totalExpenses,
                    summary.largestExpenseCategory, summary.largestExpenseAmount)
          [] chosen = "assetIncrease" ->
                generateAssetIncreaseAdvice(userData.assets, summary.netWorth,
                                            summary.passiveIncome)
          [] chosen = "liabilityReduction" ->
                generateLiabilityReductionAdvice(userData.liabilities, summary.cashFlow)
          [] chosen = "goalAchievement" ->
                generateGoalAchievementAdvice(userData.goals, summary.cashFlow,
                                              summary.netWorth, today)
          [] OTHER ->
                generateGeneralFinancialAdvice(userData.incomes, userData.expenses,
                    userData.assets, userData.liabilities, userData.goals,
                    summary.cashFlow, summary.passiveIncome, summary.netWorth)

(* what a client holds: nothing, or one record of each kind *)
UserDatas ==
    {[incomes |-> <<>>, expenses |-> <<>>, assets |-> <<>>, liabilities |-> <<>>,
      goals |-> <<>>,
      summary |-> [totalIncome |-> 0, totalExpenses |-> 0, cashFlow |-> 0,
                   passiveIncome |-> 0, netWorth |-> 0,
                   largestExpenseCategory |-> "None", largestExpenseAmount |-> 0]],
     [incomes |-> <<[type |-> "active", amount |-> Num(5000)]>>,
      expenses |-> <<[amount |-> Num(2000)]>>,
      assets |-> <<[category |-> "Real Estate", value |-> Num(9000)]>>,
      liabilities |-> <<[interestRate |-> 7, amount |-> Num(4000)]>>,
      goals |-> <<[targetDate |-> Date(13 * TicksPerMonth)]>>,
      summary |-> [totalIncome |-> 5000, totalExpenses |-> 2000, cashFlow |-> 3000,
                   passiveIncome |-> 0, netWorth |-> 5000,
                   largestExpenseCategory |-> "Housing", largestExpenseAmount |-> 1500]]}

Requests == [query : Queries, userData : UserDatas]

GenerateFinancialAdvice ==
    /\ request # NoRequest
    /\ resp' = Response("generateFinancialAdvice", 0, 0, 0,
                        [advice |-> generateFinancialAdvice(request, Date(now))])
    /\ UNCHANGED <<users, userSeq, rows, kind, process, createdFor, now, issued, sync,
                   failed, regs, oauths>>

(* calls of the advice generator with one request *)
InitAdvice ==
    /\ users = {}
    /\ userSeq = 0
    /\ rows = {}
    /\ kind = "incomes"
    /\ createdFor = <<>>
    /\ failed = FALSE
    /\ oauths = <<>>
    /\ now = 0
    /\ issued = {}
    /\ sync = 0
    /\ regs = <<>>
    /\ request \in Requests
    /\ pool = "open"
    /\ cleanups = <<>>
    /\ exited = FALSE
    /\ resp = NoResponse

NextAdvice == GenerateFinancialAdvice

SpecAdvice == InitAdvice /\ [][NextAdvice]_vars

(* one-word queries *)
ShortRequests == [query : Words, userData : UserDatas]

(* the same calls as the clock advances *)
InitAdviceClock ==
    /\ users = {}
    /\ userSeq = 0
    /\ rows = {}
    /\ kind = "incomes"
    /\ createdFor = <<>>
    /\ failed = FALSE
    /\ oauths = <<>>
    /\ now = 0
    /\ issued = {}
    /\ sync = 0
    /\ regs = <<>>
    /\ request \in ShortRequests
    /\ pool = "open"
    /\ cleanups = <<>>
    /\ exited = FALSE
    /\ resp = NoResponse

NextAdviceClock ==
    \/ GenerateFinancialAdvice
    \/ Tick

SpecAdviceClock == InitAdviceClock /\ [][NextAdviceClock]_vars

----------------------------------------------------------------------------
(* The advice generator *)

AdviceGiven == resp.route = "generateFinancialAdvice"

(* the keyword k occurs in the lower-cased query *)
Has(k) == includes(toLowerCase(request.query), AdviceKeywords[k])

(* C21: a query whose lower-cased text contains "reduce" and "expense" gets
   the expense-reduction advice, whatever other keywords it contains. *)
C21_ReduceExpenseSelectsExpenseReduction ==
    (AdviceGiven /\ Has("reduce") /\ Has("expense"))
        => resp.body.advice.template = "expenseReduction"

(* "reduce expenses goal" and the like: another branch's keywords are there too *)
C21_Witness ==
    /\ AdviceGiven
    /\ Has("reduce") /\ Has("expense")
    /\ Has("goal") /\ Has("liability")
    /\ resp.body.advice.template = "expenseReduction"

(* C22: the advice is that of the first test that holds, in the order
   (1) reduce and (expense or spending), (2) increase and asset, (3) (reduce
   or pay off) and liability, (4) goal or reach; it is the general overview
   exactly when none of the four holds. *)
C22_FirstMatchingBranchInFixedOrder ==
    AdviceGiven =>
        LET template == resp.body.advice.template
            m1 == Has("reduce") /\ (Has("expense") \/ Has("spending"))
            m2 == Has("increase") /\ Has("asset")
            m3 == (Has("reduce") \/ Has("payOff")) /\ Has("liability")
            m4 == Has("goal") \/ Has("reach")
        IN  /\ m1 => template = "expenseReduction"
            /\ (~m1 /\ m2) => template = "assetIncrease"
            /\ (~m1 /\ ~m2 /\ m3) => template = "liabilityReduction"
            /\ (~m1 /\ ~m2 /\ ~m3 /\ m4) => template = "goalAchievement"
            /\ (template = "general") <=> (~m1 /\ ~m2 /\ ~m3 /\ ~m4)

(* "increase assets pay off liability": the second test wins over the third *)
C22_Witness ==
    /\ AdviceGiven
    /\ Has("increase") /\ Has("asset")
    /\ Has("payOff") /\ Has("liability")
    /\ ~Has("reduce")
    /\ resp.body.advice.template = "assetIncrease"

(* C23: the advice depends on the arguments alone: a call returns what every
   earlier call with the same query, summary and record lists returned (or
   would have returned), whatever the clock read then. *)
C23_AdviceDependsOnArgumentsAlone ==
    AdviceGiven =>
        \A t \in 0..now : resp.body.advice = generateFinancialAdvice(request, Date(t))

----------------------------------------------------------------------------
(* routes.ts: POST /ai/assist *)

(* a body without userData *)
EmptyBody == [query |-> <<"g", "o", "a", "l">>]

AssistBodies == ShortRequests \cup {EmptyBody}

(* const { ... } = userData of an undefined userData *)
adviceThrows(body) == "userData" \notin DOMAIN body

AiAssistHandler(user, body) ==
    /\ request' = body
    /\ resp' = IF adviceThrows(body)
               THEN Response("POST /ai/assist", 500, user.id, 0,
                             [error |-> "Failed to generate financial advice"])
               ELSE Response("POST /ai/assist", 200, user.id, 0,
                             [advice |-> generateFinancialAdvice(body, Date(now))])
    /\ UNCHANGED <<users, userSeq, rows, kind, createdFor, now, issued, sync, failed, regs,
                   oauths, pool, cleanups, exited>>

AiAssist ==
    \E a \in Authentications :
        IF a.ok THEN \E body \in AssistBodies : AiAssistHandler(a.user, body)
        ELSE Reject("POST /ai/assist", a)

(* the advice route next to the route that stores records *)
NextAssist ==
    \/ Post
    \/ AiAssist

SpecAssist == Init /\ [][NextAssist]_vars

(* C24: the advice POST /ai/assist returns to a user depends on the query and
   on the user's stored records only: two requests of the same user with the
   same query, one right after the other with nothing stored in between, get
   the same advice whatever figures their bodies carry. *)
C24_AdviceFromStoredRecordsNotFromBody ==
    [][(/\ resp.route = "POST /ai/assist" /\ resp.status = 200
        /\ resp'.route = "POST /ai/assist" /\ resp'.status = 200
        /\ resp'.caller = resp.caller
        /\ request'.query = request.query)
            => resp'.body.advice = resp.body.advice]_vars

----------------------------------------------------------------------------
(* Failures and their answers *)

(* the routes in which a lookup, an insert, a token or a password can fail *)
NextErrors ==
    \/ SyncStart
    \/ SyncPartialElem
    \/ SyncFinish
    \/ Login
    \/ UsersMe
    \/ GoogleCallback
    \/ GoogleCreate

SpecErrors == Init /\ [][NextErrors]_vars

(* this step is a Google callback whose code exchange or insert fails *)
GoogleFailure ==
    /\ resp'.route = "GET /auth/google/callback"
    /\ \/ GoogleLookup(NoPayload)
       \/ \E i \in 1..Len(oauths) :
            /\ uniqueViolation(users, [username |-> localPart(oauths[i].email),
                                       email |-> oauths[i].email,
                                       googleId |-> oauths[i].sub]) # "none"
            /\ GoogleInsert(i)

(* this step is a login that throws *)
LoginFailure ==
    /\ resp'.route = "POST /auth/login"
    /\ \E username \in LoginUsernames \ {""}, password \in LoginPasswords \ {""} :
            /\ ~loginOutcome(users, username, password).ok
            /\ LoginHandler(username, password)

(* this step is a request whose token is missing or does not verify *)
TokenFailure ==
    \E h \in Headers :
        /\ ~authenticateToken(h).ok
        /\ \/ Reject("GET /users/me", authenticateToken(h))
           \/ Reject("PUT /", authenticateToken(h))

(* this step is the first write of a bulk sync that throws *)
SyncFailure == sync # 0 /\ ~failed /\ failed'

ErrorStatus(r) == r.status \in 400..599

(* C25: every repository or authentication failure (a failed Google callback,
   a login that throws, a rejected token, a bulk sync whose write throws) is
   answered with a 4xx or 5xx status, never with a success or a redirect. *)
C25_EveryFailureAnsweredWithErrorStatus ==
    [][(GoogleFailure \/ LoginFailure \/ TokenFailure \/ SyncFailure)
            => ErrorStatus(resp')]_vars

----------------------------------------------------------------------------
(* index.ts and db.ts: shutdown.  cleanup is the handler of SIGTERM and of
   SIGINT; each signal delivered starts one invocation, which runs up to its
   await and is resumed by the event loop. *)

MaxSignals == 3     \* signals delivered to the process

Signals == {"SIGTERM", "SIGINT"}

(* process.exit(0) without waiting for closeConnection *)
exitAtOnce(sig) ==
    /\ ~exited
    /\ Len(cleanups) < MaxSignals
    /\ exited' = TRUE
    /\ UNCHANGED <<users, userSeq, rows, kind, createdFor, now, issued, sync, failed, regs,
                   oauths, request, pool, cleanups, resp>>

(* cleanup up to its await: log, closeConnection(), which calls client.end()
   and awaits it; client.end() starts closing the connections when no earlier
   call has *)
cleanup(sig) ==
    /\ ~exited
    /\ Len(cleanups) < MaxSignals
    /\ pool' = IF pool = "open" THEN "ending" ELSE pool
    /\ cleanups' = Append(cleanups, [signal |-> sig, awaits |-> "client.end"])
    /\ UNCHANGED <<users, userSeq, rows, kind, createdFor, now, issued, sync, failed, regs,
                   oauths, request, exited, resp>>

(* the driver has closed the last connection: the promise of client.end()
   resolves *)
PoolEnded ==
    /\ ~exited
    /\ pool = "ending"
    /\ pool' = "ended"
    /\ UNCHANGED <<users, userSeq, rows, kind, createdFor, now, issued, sync, failed, regs,
                   oauths, request, cleanups, exited, resp>>

(* closeConnection resumes after await client.end() and returns *)
closeConnection(i) ==
    /\ ~exited
    /\ cleanups[i].awaits = "client.end"
    /\ pool = "ended"
    /\ cleanups' = [cleanups EXCEPT ![i].awaits = "closeConnection"]
    /\ UNCHANGED <<users, userSeq, rows, kind, createdFor, now, issued, sync, failed, regs,
                   oauths, request, pool, exited, resp>>

(* cleanup resumes after await closeConnection(): process.exit(0) *)
cleanupExit(i) ==
    /\ ~exited
    /\ cleanups[i].awaits = "closeConnection"
    /\ exited' = TRUE
    /\ UNCHANGED <<users, userSeq, rows, kind, createdFor, now, issued, sync, failed, regs,
                   oauths, request, pool, cleanups, resp>>

Signal == \E sig \in Signals : cleanup(sig)

CloseConnection == \E i \in 1..Len(cleanups) : closeConnection(i)

Exit == \E i \in 1..Len(cleanups) : cleanupExit(i)

NextShutdown ==
    \/ Signal
    \/ PoolEnded
    \/ CloseConnection
    \/ Exit

(* the event loop resumes an invocation whose promise has resolved, and the
   driver finishes closing its connections *)
SpecShutdown ==
    /\ InitAuth
    /\ [][NextShutdown]_vars
    /\ WF_vars(PoolEnded)
    /\ WF_vars(CloseConnection)
    /\ WF_vars(Exit)

(* C26: a signal starts the close of the connection pool; the process exits
   only when the close has completed, never with the pool open or still
   closing; and once a signal has been delivered the process does exit. *)
C26_ExitOnlyAfterPoolClosed ==
    /\ [](exited => pool = "ended")
    /\ [][Len(cleanups') > Len(cleanups) => pool' # "open"]_vars
    /\ [][(exited' /\ ~exited) => (pool = "ended" /\ cleanups # <<>>)]_vars
    /\ (cleanups # <<>>) ~> exited

(* the process has exited after a SIGTERM and a SIGINT, the second delivered
   while the pool was closing *)
C26_Witness ==
    /\ exited
    /\ pool = "ended"
    /\ Len(cleanups) = 2
    /\ cleanups[1].signal = "SIGTERM"
    /\ cleanups[2].signal = "SIGINT"
    /\ cleanups[2].awaits = "client.end"

----------------------------------------------------------------------------
(* Bulk sync: ids, owners and notes *)

(* id names a stored record of user u *)
OwnRecord(id, u) == \E r \in rows : r.id = id /\ createdFor[r.id] = u

(* C27: an element of a bulk sync whose id names no record, or a record of
   another user, changes no record, creates none and makes nothing fail; the
   sync is then answered 200 with the records of the caller. *)
C27_ElementWithForeignIdIsDropped ==
    [][/\ (sync # 0 /\ sync' = sync /\ resp' = NoResponse /\ createdFor' = createdFor)
            => \A e \in Elements :
                 (e.id # 0 /\ ~OwnRecord(e.id, sync) /\ SyncElemHandler(e))
                    => (rows' = rows /\ failed' = failed)
       /\ (sync # 0 /\ sync' = 0 /\ ~failed)
            => resp' = Response("PUT /", 200, sync, 0, [list |-> OwnedBy(sync)])
      ]_vars

(* a bulk sync of a user who owns nothing has been answered with the empty
   list while the other user's records are as they were created *)
C27_Witness ==
    /\ kind = "incomes"
    /\ resp.route = "PUT /"
    /\ resp.status = 200
    /\ resp.body.list = {}
    /\ Cardinality(rows) = MaxRecords
    /\ \A r \in rows : r.userId # resp.caller /\ mapRecord(r).amount = Num(-1)

(* C28: every stored record is owned by the user of the token of the request
   that created it: a POST creates a record of its caller whatever userId its
   body carries, a bulk-sync element without an id creates a record of the
   caller of the sync, and no later step changes the owner. *)
C28_OwnerIsUserOfToken ==
    /\ [](\A r \in rows : r.userId = createdFor[r.id])
    /\ [][/\ (resp'.route = "POST /" /\ resp'.status = 200)
               => /\ rows' # rows
                  /\ \A r \in rows' \ rows : r.userId = resp'.caller
                  /\ resp'.body.record.userId = resp'.caller
          /\ (sync # 0 /\ createdFor' # createdFor /\ resp' = NoResponse)
               => /\ rows' # rows
                  /\ \A r \in rows' \ rows : r.userId = sync
         ]_vars

(* a record created by a POST of one user and a record created by the bulk
   sync in flight of the other *)
C28_Witness ==
    /\ sync # 0
    /\ resp = NoResponse
    /\ Len(createdFor) = 2
    /\ createdFor[1] # sync
    /\ createdFor[2] = sync
    /\ \E r \in rows : r.id = 1 /\ r.userId = createdFor[1]
    /\ \E r \in rows : r.id = 2 /\ r.userId = sync

(* req.body of a POST with notes, and the elements of a bulk sync that name a
   record *)
BodiesWithNotes == {b \in NotedBodies : b.notes # Undefined}
UpdateElements == {e \in AllElements : e.id # 0}

PostWithNotes ==
    \E a \in Authentications :
        IF a.ok THEN \E body \in BodiesWithNotes : PostHandler(a.user, body)
        ELSE Reject("POST /", a)

SyncUpdateElem == \E e \in UpdateElements : SyncElemHandler(e)

(* records created with notes, and bulk syncs that update them *)
NextUpdates ==
    \/ PostWithNotes
    \/ SyncStart
    \/ SyncUpdateElem
    \/ SyncFinish

SpecUpdates == Init /\ [][NextUpdates]_vars

(* C29: an update of an income, an expense, an asset or a liability whose
   fields carry no notes leaves the stored notes null, and an update whose
   fields carry no number keeps the stored number; the id, the owner and
   createdAt are kept by every update, and the other rows are untouched.  An
   update of an expense by a bulk sync leaves its notes null whatever the
   element carries. *)
C29_UpdateWithoutNotesResetsNotes ==
    [][(sync # 0 /\ sync' = sync /\ resp' = NoResponse /\ createdFor' = createdFor)
        => \A e \in UpdateElements :
             (OwnRecord(e.id, sync) /\ SyncElemHandler(e))
             => LET fields == syncData(kind, e)
                    old == RowOf(rows, e.id)
                    new == RowOf(rows', e.id)
                IN  /\ Ids(rows') = Ids(rows)
                    /\ \A r \in rows : r.id # e.id => r \in rows'
                    /\ (kind # "goals" /\ fields.notes = Undefined) => new.notes = Null
                    /\ (kind # "goals" /\ fields.notes # Undefined) => new.notes = fields.notes
                    /\ fields.amount = Undefined => new.amount = old.amount
                    /\ new.userId = old.userId
                    /\ new.createdAt = old.createdAt
                    /\ kind = "expenses" => new.notes = Null]_vars

(* an asset created with notes and the number 5000 has lost its notes and
   kept its number in the bulk sync in flight *)
C29_Witness ==
    /\ kind = "assets"
    /\ sync # 0
    /\ resp = NoResponse
    /\ \E r \in rows : /\ r.notes = Null
                       /\ createdFor[r.id] = sync
                       /\ mapRecord(r).amount = Num(5000)

----------------------------------------------------------------------------
(* Password login and Google accounts *)

(* Google sign-in and password login on one users table *)
NextPasswordless ==
    \/ GoogleCallback
    \/ GoogleCreate
    \/ Login
    \/ Tick

SpecPasswordless == InitAuth /\ [][NextPasswordless]_vars

(* username is the name of an account without a local password *)
Passwordless(username) == \E x \in users : x.username = username /\ x.password = Null

(* C30: a password login that names an account without a local password is
   answered 401 for every password supplied; the step issues no token and
   leaves every user row, lastLogin included, as it was. *)
C30_NoPasswordLoginForGoogleAccount ==
    [][resp'.route = "POST /auth/login"
        => \A username \in LoginUsernames \ {""}, password \in LoginPasswords \ {""} :
             (Passwordless(username) /\ LoginHandler(username, password))
                => /\ resp'.status = 401
                   /\ "token" \notin DOMAIN resp'.body
                   /\ issued' = issued
                   /\ users' = users]_vars

(* the Google account alice has signed in at time 0 and its password login is
   refused later *)
C30_Witness ==
    /\ now > 0
    /\ resp.route = "POST /auth/login"
    /\ resp.status = 401
    /\ resp.body = [error |-> "data and hash arguments required"]
    /\ \E x \in users : /\ x.username = "alice"
                        /\ x.password = Null
                        /\ x.lastLogin = Date(0)

====
